---- MODULE Spec2Model ----
(***************************************************************************)
(* BonsaiConnector (src/src/bonsai_connector/connector.py): the session    *)
(* protocol between one connector object and the Bonsai platform.          *)
(*                                                                         *)
(* The connector is synchronous: every operation blocks on the transport   *)
(* client.  An operation is therefore cut at the transport calls it makes: *)
(* one action runs the code up to the request it sends, and one action per *)
(* possible answer of the platform (a response, or a raised transport      *)
(* failure) runs the code that follows, up to the next request or to the   *)
(* end of the operation.  The recursion of next_event on itself (line 180) *)
(* is the counter depth: all activations hold the same argument, and all   *)
(* but the innermost hold an event of type Unregister.                     *)
(***************************************************************************)
EXTENDS Naturals, Sequences, FiniteSets, TLC

\* ---------------------------------------------------------------- bounds
\* Nested activations of next_event the platform is allowed to cause.
MaxDepth == 2
\* The same in the specification of cascading revocations.
MaxCascade == 3
\* Session identifiers the platform hands out: 1..MaxSession.
MaxSession == 2
\* Sequence numbers the platform dictates: 1..MaxSeq.
MaxSeq == 2

\* Registrations and close calls are counted up to MaxCount.
MaxCount == 2
\* Containers nested in a value given to validate_state.
MaxNest == 2

SessionIds == 1..MaxSession
SeqIds == 1..MaxSeq

\* ------------------------------------------------------- Python values
\* A Python value is a node: its exact type, a scalar value (bool: 0/1),
\* and for containers the items (list) or the keys and their values (dict,
\* in insertion order).
PyValue(t, v) == [type |-> t, val |-> v, keys |-> <<>>, items |-> <<>>]
PyList(xs) == [type |-> "list", val |-> 0, keys |-> <<>>, items |-> xs]
PyDict(ks, xs) == [type |-> "dict", val |-> 0, keys |-> ks, items |-> xs]
PyFalse == PyValue("bool", 0)
PyTrue == PyValue("bool", 1)
PyNone == PyValue("NoneType", 0)

\* Mutant: float is not allowed.
allowed_types_no_float == {"bool", "dict", "int", "list"}
\* connector.py:40 and :41
allowed_types == {"bool", "dict", "float", "int", "list"}
iterable_types == {"dict", "list"}

\* Mutant: isinstance in place of type, which lets subclasses of the allowed
\* types through (numpy.float64 is one of float, OrderedDict one of dict).
has_invalid_type_isinstance(x) ==
    x.type \notin allowed_types \cup {"numpy.float64", "OrderedDict"}
\* connector.py:43-50
has_invalid_type(x) == x.type \notin allowed_types

\* connector.py:34-64.  The result is <<x>> for the node x the TypeError of
\* line 53 is raised for, and <<>> when validate_state returns None.  The
\* loops of lines 60-61 and 63-64 stop at the first item that raises.
RECURSIVE validate_state(_)
RECURSIVE validate_items(_, _)
validate_items(xs, i) ==
    IF i > Len(xs) THEN <<>>
    ELSE LET r == validate_state(xs[i])
         IN  IF r # <<>> THEN r ELSE validate_items(xs, i + 1)

validate_state(state) ==
    IF has_invalid_type(state) THEN <<state>>
    ELSE IF ~has_invalid_type(state) /\ state.type \notin iterable_types THEN <<>>
    ELSE IF state.type = "dict" THEN validate_items(state.items, 1)
    ELSE IF state.type = "list" THEN validate_items(state.items, 1)
    ELSE <<>>

\* dict.get(key, default), as used on line 151.
RECURSIVE dict_lookup(_, _, _, _)
dict_lookup(d, key, default, i) ==
    IF i > Len(d.keys) THEN default
    ELSE IF d.keys[i] = key THEN d.items[i]
    ELSE dict_lookup(d, key, default, i + 1)

dict_get(d, key, default) == dict_lookup(d, key, default, 1)

\* The snapshots a caller passes to next_event.
Snapshots ==
    { PyDict(<<>>, <<>>),
      PyDict(<<"halted">>, <<PyTrue>>),
      PyDict(<<"halted">>, <<PyFalse>>),
      PyDict(<<"x", "halted">>, <<PyList(<<PyValue("float", 2)>>), PyTrue>>),
      PyDict(<<"x">>, <<PyDict(<<"y">>, <<PyValue("int", 7)>>)>>),
      PyDict(<<"x">>, <<PyValue("numpy.float64", 2)>>),
      PyDict(<<"x">>, <<PyValue("str", 0)>>),
      PyDict(<<"x", "halted">>, <<PyList(<<PyValue("int", 7), PyValue("complex", 1)>>), PyTrue>>),
      PyDict(<<"x">>, <<PyDict(<<"a">>, <<PyDict(<<"b">>, <<PyValue("complex", 1)>>)>>)>>),
      PyList(<<PyValue("int", 7)>>),
      PyValue("int", 7),
      PyValue("numpy.ndarray", 0) }

\* The values validate_state is tried on: scalars of allowed types, strings,
\* None, the numpy scalars and arrays and the complex number of the test,
\* a subclass of dict, and lists and dicts of these nested up to MaxNest deep.
Leaves ==
    { PyTrue, PyValue("int", 7), PyValue("float", 2), PyValue("str", 0), PyNone,
      PyValue("numpy.float64", 2), PyValue("numpy.ndarray", 0),
      PyValue("complex", 1), PyValue("OrderedDict", 0) }

RECURSIVE Values(_)
Values(d) ==
    IF d = 0 THEN Leaves
    ELSE LET inner == Values(d - 1)
             beside == { PyValue("int", 7), PyValue("complex", 1) }
         IN  Leaves
             \cup { PyList(<<>>), PyDict(<<>>, <<>>) }
             \cup { PyList(<<v>>) : v \in inner }
             \cup { PyDict(<<"k">>, <<v>>) : v \in inner }
             \cup { PyList(<<l, v>>) : l \in beside, v \in inner }
             \cup { PyList(<<v, l>>) : l \in beside, v \in inner }
             \cup { PyDict(<<"a", "b">>, <<l, v>>) : l \in beside, v \in inner }

\* ------------------------------------------------------------ platform
\* connector.py:18-22
BonsaiEventType == {"Idle", "EpisodeStart", "EpisodeStep", "EpisodeFinish"}

\* The types the platform puts in an event: the five the protocol knows and
\* two it does not (the comparison of lines 159-175 is case sensitive).
KnownTypes == BonsaiEventType \cup {"Unregister"}
UnknownTypes == {"Foo", "idle"}
Contents == {"c1", "c2"}

\* An event of the platform: only the member of its own type is set.
Event(t, s, c) ==
    [type |-> t, sequence_id |-> s,
     episode_start |-> IF t = "EpisodeStart" THEN c ELSE "None",
     episode_step |-> IF t = "EpisodeStep" THEN c ELSE "None",
     episode_finish |-> IF t = "EpisodeFinish" THEN c ELSE "None",
     unregister |-> IF t = "Unregister" THEN c ELSE "None"]

PlatformEvents ==
    { Event(t, s, c) : t \in KnownTypes \cup UnknownTypes, s \in SeqIds, c \in Contents }

\* What travels on the transport client, in the order it travels.
\* connector.py:132-139: the body of the create call holds the descriptor.
SimulatorInterface(iface) ==
    [kind |-> "create", simulator_context |-> "client_config.simulator_context",
     body |-> iface]
\* Mutant: the advance call is made without the stored session.
AdvanceRequest_unbound(sid, body) ==
    [kind |-> "advance", session_id |-> 0, sequence_id |-> body.sequence_id,
     state |-> body.state, halted |-> body.halted]
\* connector.py:153-157
AdvanceRequest(sid, body) ==
    [kind |-> "advance", session_id |-> sid, sequence_id |-> body.sequence_id,
     state |-> body.state, halted |-> body.halted]
\* Mutant: the delete call names no session.
DeleteRequest_unbound(sid) == [kind |-> "delete", session_id |-> 0]
DeleteRequest(sid) == [kind |-> "delete", session_id |-> sid]
NoRequest == [kind |-> "none"]
Created(sid) == [kind |-> "created", session_id |-> sid]
EventResponse(ev) == [kind |-> "event", event |-> ev]
Deleted == [kind |-> "deleted"]
Failure == [kind |-> "failure"]
Interrupt == [kind |-> "interrupt"]

\* ------------------------------------------------------------ outcomes
\* How an operation (or one activation of next_event) ends.
NoOutcome ==
    [outcome |-> "none", event_type |-> "None", event_content |-> "None",
     exc |-> "None", msg |-> "None", arg |-> "None"]
ReturnedNone == [NoOutcome EXCEPT !.outcome = "returned"]
\* connector.py:25-28
BonsaiEvent(event_type, event_content) ==
    [NoOutcome EXCEPT !.outcome = "returned", !.event_type = event_type,
                      !.event_content = event_content]
Raised(exc, msg, arg) ==
    [NoOutcome EXCEPT !.outcome = "raised", !.exc = exc, !.msg = msg, !.arg = arg]
Register == [NoOutcome EXCEPT !.outcome = "register"]

\* The failure the transport client raises; it is not caught anywhere.
TransportError == Raised("TransportError", "transport", "None")
\* The interrupt signal, raised while a transport call blocks.
KeyboardInterrupt == Raised("KeyboardInterrupt", "None", "None")
\* What the transport call raises for each of the two.
RaisedBy(entry) == IF entry = Interrupt THEN KeyboardInterrupt ELSE TransportError

VARIABLES
    retry,                \* self.retry
    sim_interface,        \* self.sim_interface
    registered_session,   \* self.registered_session.session_id, 0: not set
    sequence_id,          \* self.sequence_id, 0: not set
    op,                   \* the operation the caller started last
    pc,                   \* where that operation stands
    depth,                \* activations of next_event on the stack
    state,                \* the argument of those activations
    log,                  \* requests and answers of the operation, in order
    result,               \* how the operation ended for the caller
    activation,           \* how the innermost activation of next_event ended
    platform_sequence,    \* the sequence number the platform dictated last
    platform_session,     \* the session the platform created last, 0: none
    revoked,              \* session unregistered with retry off, 0: none
    before,               \* session and sequence number when the operation began
    scope,                \* the with statement around the connector
    validation            \* a call of validate_state by itself

vars ==
    <<retry, sim_interface, registered_session, sequence_id, op, pc, depth, state,
      log, result, activation, platform_sequence, platform_session, revoked, before,
      scope, validation>>

\* The with statement: not entered, in its body, in __exit__, or left; the
\* exception type __exit__ was given, what the statement lets through, and
\* the registrations and close calls of the connector it holds.
NoScope ==
    [phase |-> "none", type_ |-> "None", propagated |-> "None",
     registrations |-> 0, deletes |-> 0]

\* validate_state called by itself, as the test does: whether it was
\* called, and what it raised for.
NotValidated == [called |-> FALSE, error |-> <<>>]

Inc(n) == IF n < MaxCount THEN n + 1 ELSE n

Init ==
    /\ retry \in BOOLEAN
    /\ sim_interface = PyNone
    /\ registered_session = 0
    /\ sequence_id = 0
    /\ op = "none"
    /\ pc = "new"
    /\ depth = 0
    /\ state = PyNone
    /\ log = <<>>
    /\ result = NoOutcome
    /\ activation = NoOutcome
    /\ platform_sequence = 0
    /\ platform_session = 0
    /\ revoked = 0
    /\ before = [session_id |-> 0, sequence_id |-> 0]
    /\ scope = NoScope
    /\ validation = NotValidated

\* -------------------------------------------------- validate_interface
\* The descriptors a caller gives to __init__: mappings, as the docstring of
\* the class asks (lines 71-79).
Descriptors ==
    { PyDict(<<"name", "timeout">>, <<PyValue("str", 0), PyValue("int", 7)>>),
      PyDict(<<"name", "timeout">>, <<PyValue("str", 0), PyValue("str", 0)>>),
      PyDict(<<"timeout">>, <<PyValue("int", 7)>>) }

\* connector.py:109-117: how jsonschema.validate ends.  It returns, raises
\* ValidationError, or raises anything else while it runs.  The schema it
\* reads (line 100) decides which; any of the three can follow any
\* descriptor here.
CheckOutcomes == {"validated", "ValidationError", "BaseException"}

\* Mutant: a descriptor that fails the check is dropped.
validate_interface_strict(d, check) == IF check = "validated" THEN d ELSE PyNone
\* connector.py:97-118: both except clauses only log, and line 118 returns
\* the descriptor it was given.
validate_interface(d, check) == d

\* connector.py:93: the descriptor __init__ was given, and how its check went.
Checked(d, check) == [kind |-> "check", descriptor |-> d, check |-> check]

\* connector.py:132-139
CreateRequest == SimulatorInterface(sim_interface)

\* ------------------------------------------------------- register_sim
\* Mutant: only the session of the first create call is stored.
register_sim_session_first(created) ==
    IF registered_session = 0 THEN created.session_id ELSE registered_session
\* Mutant: the session of the create call is not stored.
register_sim_session_stale(created) == registered_session
\* connector.py:136: the session the create call returned is stored.
register_sim_session(created) == created.session_id
\* Mutant: the sequence number goes on counting.
register_sim_sequence_id_next == sequence_id + 1
\* Mutant: the sequence number is not reset.
register_sim_sequence_id_kept == sequence_id
\* connector.py:140
register_sim_sequence_id == 1

\* ---------------------------------------------------------- next_event
\* Mutant: the halted entry of the snapshot is not read.
SimulatorState_not_halted(seq, st) ==
    [sequence_id |-> seq, state |-> st, halted |-> PyFalse]
\* connector.py:148-152, for a state that has a get method.
SimulatorState(seq, st) ==
    [sequence_id |-> seq, state |-> st, halted |-> dict_get(st, "halted", PyFalse)]

\* Mutant: line 147 is missing.
next_event_request_unchecked(st, sid, seq) ==
    IF st.type # "dict"
    THEN [out |-> Raised("AttributeError", "object has no attribute", "get"),
          req |-> NoRequest]
    ELSE [out |-> NoOutcome, req |-> AdvanceRequest(sid, SimulatorState(seq, st))]

\* connector.py:147-157: one activation up to its advance request.  Line
\* 147 raises for a state the validator refuses, line 151 for a state that
\* has no get method (of the allowed types only dict has one).
next_event_request(st, sid, seq) ==
    LET bad == validate_state(st)
    IN  IF bad # <<>>
        THEN [out |-> Raised("TypeError", "Element not supported", bad[1].type),
              req |-> NoRequest]
        ELSE IF st.type # "dict"
        THEN [out |-> Raised("AttributeError", "object has no attribute", "get"),
              req |-> NoRequest]
        ELSE [out |-> NoOutcome, req |-> AdvanceRequest(sid, SimulatorState(seq, st))]

\* Mutant: the sequence number is stored only for an event that is returned.
next_event_sequence_id_on_success(event) ==
    IF event.type \in BonsaiEventType THEN event.sequence_id ELSE sequence_id
\* connector.py:158
next_event_sequence_id(event) == event.sequence_id

\* connector.py:186
UnknownEvent(event_type) == Raised("TypeError", "Unknown event type. Received", event_type)

\* Mutant: the RuntimeError of line 182 lacks the details.
next_event_dispatch_no_details(event, rt) ==
    IF event.type = "Idle" THEN BonsaiEvent("Idle", "{}")
    ELSE IF event.type = "EpisodeStart"
    THEN BonsaiEvent("EpisodeStart", event.episode_start)
    ELSE IF event.type = "EpisodeStep"
    THEN BonsaiEvent("EpisodeStep", event.episode_step)
    ELSE IF event.type = "EpisodeFinish"
    THEN BonsaiEvent("EpisodeFinish", event.episode_finish)
    ELSE IF event.type = "Unregister"
    THEN IF rt THEN Register
         ELSE Raised("RuntimeError",
                     "Simulator Session unregistered by platform because of ",
                     "None")
    ELSE UnknownEvent(event.type)

\* Mutant: with retry off, Unregister is handed to the caller as an event.
next_event_dispatch_unregister_event(event, rt) ==
    IF event.type = "Idle" THEN BonsaiEvent("Idle", "{}")
    ELSE IF event.type = "EpisodeStart"
    THEN BonsaiEvent("EpisodeStart", event.episode_start)
    ELSE IF event.type = "EpisodeStep"
    THEN BonsaiEvent("EpisodeStep", event.episode_step)
    ELSE IF event.type = "EpisodeFinish"
    THEN BonsaiEvent("EpisodeFinish", event.episode_finish)
    ELSE IF event.type = "Unregister"
    THEN IF rt THEN Register
         ELSE BonsaiEvent("Unregister", event.unregister)
    ELSE UnknownEvent(event.type)

\* Mutant: an EpisodeStep event is given the start config.
next_event_dispatch_step_config(event, rt) ==
    IF event.type = "Idle" THEN BonsaiEvent("Idle", "{}")
    ELSE IF event.type = "EpisodeStart"
    THEN BonsaiEvent("EpisodeStart", event.episode_start)
    ELSE IF event.type = "EpisodeStep"
    THEN BonsaiEvent("EpisodeStep", event.episode_start)
    ELSE IF event.type = "EpisodeFinish"
    THEN BonsaiEvent("EpisodeFinish", event.episode_finish)
    ELSE IF event.type = "Unregister"
    THEN IF rt THEN Register
         ELSE Raised("RuntimeError",
                     "Simulator Session unregistered by platform because of ",
                     event.unregister)
    ELSE UnknownEvent(event.type)

\* Mutant: retry is not read, an Unregister answer always raises.
next_event_dispatch_retry_ignored(event, rt) ==
    IF event.type = "Idle" THEN BonsaiEvent("Idle", "{}")
    ELSE IF event.type = "EpisodeStart"
    THEN BonsaiEvent("EpisodeStart", event.episode_start)
    ELSE IF event.type = "EpisodeStep"
    THEN BonsaiEvent("EpisodeStep", event.episode_step)
    ELSE IF event.type = "EpisodeFinish"
    THEN BonsaiEvent("EpisodeFinish", event.episode_finish)
    ELSE IF event.type = "Unregister"
    THEN Raised("RuntimeError",
                "Simulator Session unregistered by platform because of ",
                event.unregister)
    ELSE UnknownEvent(event.type)

\* connector.py:159-186 for the activation that received event: the event
\* it returns, the error it raises, or Register when it goes on to lines
\* 179-180.
next_event_dispatch(event, rt) ==
    IF event.type = "Idle" THEN BonsaiEvent("Idle", "{}")
    ELSE IF event.type = "EpisodeStart"
    THEN BonsaiEvent("EpisodeStart", event.episode_start)
    ELSE IF event.type = "EpisodeStep"
    THEN BonsaiEvent("EpisodeStep", event.episode_step)
    ELSE IF event.type = "EpisodeFinish"
    THEN BonsaiEvent("EpisodeFinish", event.episode_finish)
    ELSE IF event.type = "Unregister"
    THEN IF rt THEN Register
         ELSE Raised("RuntimeError",
                     "Simulator Session unregistered by platform because of ",
                     event.unregister)
    ELSE UnknownEvent(event.type)

\* connector.py:180 and 186: what an activation that called next_event on
\* line 180 does with the way that call ended.  The event the call returns
\* is dropped and control reaches line 186 with this activation's own event,
\* whose type is Unregister; an error the call raises passes through.
next_event_after_retry(inner) ==
    IF inner.outcome = "returned" THEN UnknownEvent("Unregister") ELSE inner

\* How the caller's activation ends when the innermost of d activations
\* ends with inner.
RECURSIVE unwind(_, _)
unwind(inner, d) ==
    IF d <= 1 THEN inner ELSE unwind(next_event_after_retry(inner), d - 1)

\* ------------------------------------------------------------- actions
\* connector.py:88-95 up to the create call of register_sim (line 136).
BonsaiConnector_init(d, check) ==
    /\ pc = "new"
    /\ check \in CheckOutcomes
    /\ sim_interface' = validate_interface(d, check)
    /\ op' = "init"
    /\ pc' = "create"
    /\ log' = <<Checked(d, check), SimulatorInterface(sim_interface')>>
    /\ UNCHANGED <<validation, retry, registered_session, sequence_id, depth, state, result,
                   activation, platform_sequence, platform_session, revoked,
                   before, scope>>

\* connector.py:131-136, called by the owner of the connector.
register_sim ==
    /\ pc = "ready"
    /\ op' = "register_sim"
    /\ pc' = "create"
    /\ log' = <<CreateRequest>>
    /\ result' = NoOutcome
    /\ activation' = NoOutcome
    /\ state' = PyNone
    /\ before' = [session_id |-> registered_session, sequence_id |-> sequence_id]
    /\ UNCHANGED <<validation, retry, sim_interface, registered_session, sequence_id, depth,
                   platform_sequence, platform_session, revoked,
                   scope>>

\* The platform answers a create call with a session it did not hand out
\* last: lines 136-143 store it; under line 179 control goes on to line 180.
CreateResponds(sid) ==
    /\ pc = "create"
    /\ sid # registered_session
    /\ registered_session' = register_sim_session(Created(sid))
    /\ sequence_id' = register_sim_sequence_id
    /\ platform_sequence' = 1
    /\ platform_session' = sid
    /\ revoked' = 0
    /\ scope' = IF scope.phase = "none" THEN scope
                ELSE [scope EXCEPT !.registrations = Inc(@)]
    /\ IF op = "next_event"
       THEN LET r == next_event_request(state, registered_session', sequence_id')
                lg == Append(log, Created(sid))
            IN  IF r.req = NoRequest
                THEN /\ log' = lg
                     /\ pc' = "ready"
                     /\ depth' = 0
                     /\ activation' = r.out
                     /\ result' = unwind(r.out, depth + 1)
                ELSE /\ log' = Append(lg, r.req)
                     /\ pc' = "advance"
                     /\ depth' = depth + 1
                     /\ activation' = NoOutcome
                     /\ result' = NoOutcome
       ELSE /\ log' = Append(log, Created(sid))
            /\ pc' = "ready"
            /\ result' = ReturnedNone
            /\ UNCHANGED <<depth, activation>>
    /\ UNCHANGED <<validation, retry, sim_interface, op, state, before>>

\* Mutant: __init__ swallows what register_sim raises.
init_after_raise_usable(o) == "ready"
\* connector.py:95: what register_sim raises leaves __init__, and no
\* connector comes into being; raised in another operation (o) it leaves
\* that operation.
init_after_raise(o) == IF o = "init" THEN "dead" ELSE "ready"

\* The create call raises: line 136 stores nothing, line 140 is not reached,
\* and the error leaves register_sim and every activation of next_event.
CreateRaises(entry) ==
    /\ pc = "create"
    /\ log' = Append(log, entry)
    /\ pc' = init_after_raise(op)
    /\ depth' = 0
    /\ result' = RaisedBy(entry)
    /\ activation' = IF op = "next_event" THEN RaisedBy(entry) ELSE activation
    /\ UNCHANGED <<validation, retry, sim_interface, registered_session, sequence_id, op,
                   state, platform_sequence, platform_session, revoked, before, scope>>

CreateFails == CreateRaises(Failure)
CreateInterrupted == CreateRaises(Interrupt)

\* connector.py:145-157, called by the owner of the connector.
next_event(st) ==
    /\ pc = "ready"
    /\ op' = "next_event"
    /\ state' = st
    /\ before' = [session_id |-> registered_session, sequence_id |-> sequence_id]
    /\ LET r == next_event_request(st, registered_session, sequence_id)
       IN  IF r.req = NoRequest
           THEN /\ log' = <<>>
                /\ pc' = "ready"
                /\ depth' = 0
                /\ activation' = r.out
                /\ result' = r.out
           ELSE /\ log' = <<r.req>>
                /\ pc' = "advance"
                /\ depth' = 1
                /\ activation' = NoOutcome
                /\ result' = NoOutcome
    /\ UNCHANGED <<validation, retry, sim_interface, registered_session, sequence_id,
                   platform_sequence, platform_session, revoked,
                   scope>>

\* The platform answers the advance call with an event: lines 158-186 of the
\* innermost activation, and of those below it when it ends.  Under line 179
\* the create call of register_sim is the next request.
AdvanceResponds(event) ==
    /\ pc = "advance"
    /\ sequence_id' = next_event_sequence_id(event)
    /\ platform_sequence' = event.sequence_id
    /\ LET d == next_event_dispatch(event, retry)
       IN  IF d = Register
           THEN /\ log' = Append(Append(log, EventResponse(event)), CreateRequest)
                /\ pc' = "create"
                /\ UNCHANGED <<depth, result, activation, revoked>>
           ELSE /\ log' = Append(log, EventResponse(event))
                /\ pc' = "ready"
                /\ depth' = 0
                /\ activation' = d
                /\ result' = unwind(d, depth)
                /\ revoked' = IF event.type = "Unregister" THEN registered_session
                              ELSE revoked
    /\ UNCHANGED <<validation, retry, sim_interface, registered_session, op, state,
                   platform_session, before, scope>>

\* The platform unregisters the session of at most limit - 1 activations of
\* one call.
Within(event, limit) == next_event_dispatch(event, retry) = Register => depth < limit

\* The advance call raises: line 158 is not reached.
AdvanceRaises(entry) ==
    /\ pc = "advance"
    /\ log' = Append(log, entry)
    /\ pc' = "ready"
    /\ depth' = 0
    /\ activation' = RaisedBy(entry)
    /\ result' = RaisedBy(entry)
    /\ UNCHANGED <<validation, retry, sim_interface, registered_session, sequence_id, op,
                   state, platform_sequence, platform_session, revoked, before, scope>>

AdvanceFails == AdvanceRaises(Failure)
AdvanceInterrupted == AdvanceRaises(Interrupt)

\* connector.py:188-194, called by the owner of the connector.
close_session ==
    /\ pc = "ready"
    /\ op' = "close_session"
    /\ pc' = "delete"
    /\ log' = <<DeleteRequest(registered_session)>>
    /\ result' = NoOutcome
    /\ activation' = NoOutcome
    /\ state' = PyNone
    /\ before' = [session_id |-> registered_session, sequence_id |-> sequence_id]
    /\ scope' = IF scope.phase = "none" THEN scope
                ELSE [scope EXCEPT !.deletes = Inc(@)]
    /\ UNCHANGED <<validation, retry, sim_interface, registered_session, sequence_id, depth,
                   platform_sequence, platform_session, revoked>>

\* connector.py:120-121, in "with BonsaiConnector(...) as c": the connector
\* enters the statement with the one registration of its __init__.
BonsaiConnector_enter ==
    /\ pc = "ready"
    /\ op = "init"
    /\ scope.phase = "none"
    /\ scope' = [scope EXCEPT !.phase = "body", !.registrations = 1]
    /\ UNCHANGED <<validation, retry, sim_interface, registered_session, sequence_id, op, pc,
                   depth, state, log, result, activation, platform_sequence,
                   platform_session, revoked, before>>

\* The exception types the body of the with statement can end with: none,
\* the interrupt signal, what the last operation raised, or a failure of
\* the body's own.
ExitTypes ==
    {"None", "KeyboardInterrupt", "Exception"}
        \cup (IF result.outcome = "raised" THEN {result.exc} ELSE {})

\* Mutant: __exit__ returns True whatever it was given.
exit_suppresses_all(type_) == TRUE
\* connector.py:128-129: __exit__ returns True for the interrupt signal and
\* None otherwise.
exit_suppresses(type_) == type_ = "KeyboardInterrupt"

\* connector.py:123-127 up to the delete call of close_session.
BonsaiConnector_exit(type_) ==
    /\ pc = "ready"
    /\ scope.phase = "body"
    /\ type_ \in ExitTypes
    /\ op' = "exit"
    /\ pc' = "delete"
    /\ log' = <<DeleteRequest(registered_session)>>
    /\ result' = NoOutcome
    /\ activation' = NoOutcome
    /\ state' = PyNone
    /\ before' = [session_id |-> registered_session, sequence_id |-> sequence_id]
    /\ scope' = [scope EXCEPT !.phase = "exit", !.type_ = type_, !.deletes = Inc(@)]
    /\ UNCHANGED <<validation, retry, sim_interface, registered_session, sequence_id, depth,
                   platform_sequence, platform_session, revoked>>

\* The delete call returns: close_session returns None, and under __exit__
\* lines 128-129 decide what the with statement lets through.
DeleteResponds ==
    /\ pc = "delete"
    /\ log' = Append(log, Deleted)
    /\ pc' = IF op = "exit" THEN "left" ELSE "ready"
    /\ result' = ReturnedNone
    /\ scope' = IF op = "exit"
                THEN [scope EXCEPT !.phase = "left",
                                   !.propagated = IF exit_suppresses(scope.type_)
                                                  THEN "None" ELSE scope.type_]
                ELSE scope
    /\ UNCHANGED <<validation, retry, sim_interface, registered_session, sequence_id, op,
                   depth, state, activation, platform_sequence, platform_session,
                   revoked, before>>

\* The delete call raises: the error leaves close_session, and under
\* __exit__ it leaves the with statement in place of what the body raised.
DeleteRaises(entry) ==
    /\ pc = "delete"
    /\ log' = Append(log, entry)
    /\ pc' = IF op = "exit" THEN "left" ELSE "ready"
    /\ result' = RaisedBy(entry)
    /\ scope' = IF op = "exit"
                THEN [scope EXCEPT !.phase = "left", !.propagated = RaisedBy(entry).exc]
                ELSE scope
    /\ UNCHANGED <<validation, retry, sim_interface, registered_session, sequence_id, op,
                   depth, state, activation, platform_sequence, platform_session,
                   revoked, before>>

DeleteFails == DeleteRaises(Failure)
DeleteInterrupted == DeleteRaises(Interrupt)

\* The descriptor of the specifications that do not vary it.
Descriptor == PyDict(<<"name", "timeout">>, <<PyValue("str", 0), PyValue("int", 7)>>)

Next ==
    \/ BonsaiConnector_init(Descriptor, "validated")
    \/ register_sim
    \/ \E sid \in SessionIds : CreateResponds(sid)
    \/ CreateFails
    \/ CreateInterrupted
    \/ \E st \in Snapshots : next_event(st)
    \/ \E event \in PlatformEvents : Within(event, MaxDepth) /\ AdvanceResponds(event)
    \/ AdvanceFails
    \/ AdvanceInterrupted
    \/ close_session
    \/ DeleteResponds
    \/ DeleteFails
    \/ DeleteInterrupted

Spec == Init /\ [][Next]_vars

\* Construction with every descriptor and every way its check can go.
InterfaceSnapshots ==
    { PyDict(<<"halted">>, <<PyTrue>>), PyDict(<<"x">>, <<PyValue("str", 0)>>) }
InterfaceEvents == { Event(t, 1, "c1") : t \in {"Idle", "Unregister", "Foo"} }

InterfaceNext ==
    \/ \E d \in Descriptors, check \in CheckOutcomes :
           BonsaiConnector_init(d, check)
    \/ register_sim
    \/ \E sid \in SessionIds : CreateResponds(sid)
    \/ CreateFails
    \/ CreateInterrupted
    \/ \E st \in InterfaceSnapshots : next_event(st)
    \/ \E event \in InterfaceEvents : Within(event, MaxDepth) /\ AdvanceResponds(event)
    \/ AdvanceFails
    \/ AdvanceInterrupted

InterfaceSpec == Init /\ [][InterfaceNext]_vars

\* The connector inside a with statement.
ScopeNext ==
    \/ BonsaiConnector_init(Descriptor, "validated")
    \/ register_sim
    \/ \E sid \in SessionIds : CreateResponds(sid)
    \/ CreateFails
    \/ CreateInterrupted
    \/ \E st \in InterfaceSnapshots : next_event(st)
    \/ \E event \in InterfaceEvents : Within(event, MaxDepth) /\ AdvanceResponds(event)
    \/ AdvanceFails
    \/ AdvanceInterrupted
    \/ close_session
    \/ BonsaiConnector_enter
    \/ \E type_ \in {"None", "KeyboardInterrupt", "Exception", "TypeError",
                     "RuntimeError", "AttributeError", "TransportError"} :
           BonsaiConnector_exit(type_)
    \/ DeleteResponds
    \/ DeleteFails
    \/ DeleteInterrupted

ScopeSpec == Init /\ [][ScopeNext]_vars

\* Cascading revocations: calls of next_event whose sessions the platform
\* unregisters one after the other.
CascadeSnapshots == { PyDict(<<"halted">>, <<PyTrue>>), PyDict(<<>>, <<>>) }
CascadeEvents ==
    { Event(t, s, "c1") : t \in {"Idle", "EpisodeStep", "Unregister", "Foo"}, s \in SeqIds }

CascadeNext ==
    \/ BonsaiConnector_init(Descriptor, "validated")
    \/ \E sid \in SessionIds : CreateResponds(sid)
    \/ CreateFails
    \/ \E st \in CascadeSnapshots : next_event(st)
    \/ \E event \in CascadeEvents : Within(event, MaxCascade) /\ AdvanceResponds(event)
    \/ AdvanceFails

CascadeSpec == Init /\ [][CascadeNext]_vars

\* validate_state on its own, as the test calls it.
ValidateInit ==
    /\ retry = FALSE
    /\ sim_interface = PyNone
    /\ registered_session = 0
    /\ sequence_id = 0
    /\ op = "none"
    /\ pc = "new"
    /\ depth = 0
    /\ state \in Values(MaxNest)
    /\ log = <<>>
    /\ result = NoOutcome
    /\ activation = NoOutcome
    /\ platform_sequence = 0
    /\ platform_session = 0
    /\ revoked = 0
    /\ before = [session_id |-> 0, sequence_id |-> 0]
    /\ scope = NoScope
    /\ validation = NotValidated

\* test_bonsai_connector.py:24-30: validate_state(state) returns None or
\* raises the TypeError of line 53.
test_bonsai_connector_validate_state ==
    /\ ~validation.called
    /\ validation' = [called |-> TRUE, error |-> validate_state(state)]
    /\ UNCHANGED <<retry, sim_interface, registered_session, sequence_id, op, pc,
                   depth, state, log, result, activation, platform_sequence,
                   platform_session, revoked, before, scope>>

ValidateNext == test_bonsai_connector_validate_state

ValidateSpec == ValidateInit /\ [][ValidateNext]_vars

\* The same with a platform that answers every request in the end, and that
\* answers an advance request of each call with something other than
\* Unregister after fewer than MaxCascade of them.
LiveSpec ==
    /\ Init
    /\ [][CascadeNext]_vars
    /\ WF_vars(\E sid \in SessionIds : CreateResponds(sid))
    /\ WF_vars(\E event \in CascadeEvents :
                  Within(event, MaxCascade) /\ AdvanceResponds(event))

\* ---------------------------------------------------------- properties
Last(s) == s[Len(s)]
IsEvent(e) == e.kind = "event"
Unregistered(e) == IsEvent(e) /\ e.event.type = "Unregister"
HasUnregister == \E i \in 1..Len(log) : Unregistered(log[i])
HasCreated == \E i \in 1..Len(log) : log[i].kind = "created"
\* A call of next_event by the owner has ended.
Ended == op = "next_event" /\ pc = "ready"
\* The decoding table of the specification, section 4.3.
Decoded(ev) ==
    BonsaiEvent(ev.type,
                CASE ev.type = "Idle" -> "{}"
                  [] ev.type = "EpisodeStart" -> ev.episode_start
                  [] ev.type = "EpisodeStep" -> ev.episode_step
                  [] ev.type = "EpisodeFinish" -> ev.episode_finish
                  [] OTHER -> "None")

\* C1: every advance request carries the sequence number the platform
\* dictated last: the one of the preceding advance response, or 1 when a
\* registration came after it; next_event takes no sequence number.
C1_SequenceDictated ==
    pc = "advance" =>
        /\ Last(log).kind = "advance"
        /\ Last(log).sequence_id = platform_sequence
        /\ (Len(log) > 1 /\ log[Len(log) - 1].kind = "created")
               => Last(log).sequence_id = 1

C1_Witness ==
    /\ pc = "advance"
    /\ Len(log) = 1
    /\ Last(log).sequence_id = MaxSeq
    /\ before.sequence_id = MaxSeq

\* C2: a snapshot the validator refuses ends next_event with the TypeError
\* of the validator, with no request sent, also with retry on, and with the
\* stored session and sequence number as they were.
C2_InvalidSnapshotSendsNothing ==
    (op = "next_event" /\ validate_state(state) # <<>>) =>
        /\ pc = "ready"
        /\ log = <<>>
        /\ result = Raised("TypeError", "Element not supported",
                           validate_state(state)[1].type)
        /\ registered_session = before.session_id
        /\ sequence_id = before.sequence_id

C2_Witness ==
    /\ Ended
    /\ retry
    /\ validate_state(state) # <<>>
    /\ state.type = "dict"
    /\ result.exc = "TypeError"
    /\ sequence_id = MaxSeq

\* C3: with retry on, a call whose advance request was answered Unregister
\* hands its caller the event the re-issued advance request produced.
C3_RetryReturnsRetriedEvent ==
    (Ended /\ retry /\ HasUnregister /\ IsEvent(Last(log))
       /\ Last(log).event.type \in BonsaiEventType)
        => result = Decoded(Last(log).event)

\* C4: with retry on, an Unregister response is followed by one create
\* request; when the create call returns a session, one advance request
\* follows with that session, sequence number 1 and the snapshot of the
\* call; when the create call raises, the call ends with that error.
C4_RetryReissues ==
    \A i \in 1..Len(log) :
        (retry /\ Unregistered(log[i])) =>
            /\ i < Len(log)
            /\ log[i + 1] = CreateRequest
            /\ Len(log) = i + 1 => pc = "create"
            /\ Len(log) > i + 1 =>
                   \/ /\ log[i + 2] \in {Failure, Interrupt}
                      /\ Len(log) = i + 2
                      /\ pc = "ready"
                      /\ result = RaisedBy(log[i + 2])
                   \/ /\ log[i + 2].kind = "created"
                      /\ Len(log) > i + 2
                      /\ log[i + 3].kind = "advance"
                      /\ log[i + 3].session_id = log[i + 2].session_id
                      /\ log[i + 3].sequence_id = 1
                      /\ log[i + 3].state = log[1].state
                      /\ log[i + 3].state = state
                      /\ log[i + 3].halted = log[1].halted
                      /\ Len(log) > i + 3 =>
                             log[i + 4].kind \in {"event", "failure", "interrupt"}

C4_Witness ==
    /\ retry
    /\ Len(log) >= 5
    /\ Unregistered(log[2])
    /\ log[2].event.sequence_id = MaxSeq
    /\ log[5].kind = "advance"
    /\ log[5].session_id # log[1].session_id
    /\ log[5].halted = PyTrue

\* C5: with retry off, an Unregister response ends the call with the
\* RuntimeError that carries the details of the platform, and it is the
\* last thing on the transport in that call.
C5_NoRetryRaises ==
    \A i \in 1..Len(log) :
        (~retry /\ Unregistered(log[i])) =>
            /\ i = Len(log)
            /\ Ended
            /\ result = Raised("RuntimeError",
                               "Simulator Session unregistered by platform because of ",
                               log[i].event.unregister)
            /\ result.arg \in Contents

C5_Witness ==
    /\ ~retry
    /\ Ended
    /\ Len(log) = 2
    /\ Unregistered(log[2])
    /\ result.arg = "c2"

\* C6 as stated: once a call has failed on Unregister with retry off, no
\* advance request is sent for the revoked session until register_sim.
C6_RevokedSessionNotUsed ==
    (revoked # 0 /\ pc = "advance") => Last(log).session_id # revoked

\* C6 as amended: the connector keeps no broken state; it keeps the revoked
\* session, and a later call of next_event sends its advance request for
\* that session, until register_sim stores another one.
C6_RevokedSessionKept ==
    revoked # 0 =>
        /\ registered_session = revoked
        /\ ~retry
        /\ pc # "dead"
        /\ pc = "advance" =>
              /\ Last(log).kind = "advance"
              /\ Last(log).session_id = revoked
              /\ Last(log).sequence_id = platform_sequence

C6_Witness ==
    /\ revoked # 0
    /\ pc = "advance"
    /\ Last(log).session_id = revoked

\* C7 as stated: a call of next_event that raises without having registered
\* again leaves the stored session and sequence number as they were.
C7_RaiseLeavesStateUnchanged ==
    (Ended /\ result.outcome = "raised" /\ ~HasCreated) =>
        /\ registered_session = before.session_id
        /\ sequence_id = before.sequence_id

\* C7 as amended: a call that returns an event has stored the sequence
\* number of the response; a call that raises without having registered
\* again leaves the stored session as it was, and leaves the sequence number
\* as it was only when no response arrived: once a response has arrived its
\* sequence number is stored, also when the call then fails on an unknown
\* type, on Unregister with retry off, or on the create call that follows
\* Unregister with retry on.
C7_SequenceStoredOnResponse ==
    Ended =>
        /\ result.outcome \in {"returned", "raised"}
        /\ result.outcome = "returned" =>
               /\ IsEvent(Last(log))
               /\ sequence_id = Last(log).event.sequence_id
        /\ (result.outcome = "raised" /\ ~HasCreated) =>
               /\ registered_session = before.session_id
               /\ IF \E i \in 1..Len(log) : IsEvent(log[i])
                  THEN /\ IsEvent(log[2])
                       /\ \A i \in 3..Len(log) : ~IsEvent(log[i])
                       /\ sequence_id = log[2].event.sequence_id
                  ELSE sequence_id = before.sequence_id

C7_Witness ==
    /\ Ended
    /\ ~retry
    /\ result.outcome = "raised"
    /\ Len(log) = 2
    /\ Unregistered(log[2])
    /\ sequence_id # before.sequence_id

\* C8: whatever the platform answers and whatever the retry policy, an
\* event that next_event returns, to its caller or to the activation that
\* re-issued it, has one of the four types of BonsaiEventType.
C8_NoUnregisterReturned ==
    op = "next_event" =>
        /\ result.outcome = "returned" =>
               result.event_type \in {"Idle", "EpisodeStart", "EpisodeStep", "EpisodeFinish"}
        /\ activation.outcome = "returned" =>
               activation.event_type \in {"Idle", "EpisodeStart", "EpisodeStep", "EpisodeFinish"}

C8_Witness ==
    /\ Ended
    /\ HasUnregister
    /\ activation.outcome = "returned"

\* C9: the activation of next_event that receives a response of type Idle,
\* EpisodeStart, EpisodeStep or EpisodeFinish returns an event of that type
\* with the empty mapping, the start config, the step action or the finish
\* reason; the caller receives it when it is the caller's own activation.
C9_Decoding ==
    (Ended /\ Len(log) > 0 /\ IsEvent(Last(log))
       /\ Last(log).event.type \in BonsaiEventType) =>
        /\ activation = Decoded(Last(log).event)
        /\ activation.event_type = Last(log).event.type
        /\ ~HasCreated => result = activation

C9_Witness ==
    /\ Ended
    /\ Len(log) = 2
    /\ IsEvent(Last(log))
    /\ Last(log).event.type = "EpisodeStep"
    /\ result = BonsaiEvent("EpisodeStep", "c2")

\* C10: a response of a type outside the five known ones ends the call with
\* the unknown-event error that names this type, and the unknown-event error
\* never names one of the five known types.
C10_UnknownEventOnlyForUnknown ==
    Ended =>
        /\ (Len(log) > 0 /\ IsEvent(Last(log))
              /\ Last(log).event.type \notin KnownTypes)
               => result = UnknownEvent(Last(log).event.type)
        /\ result.msg = "Unknown event type. Received" => result.arg \notin KnownTypes

\* ------------------------------------------------- the with statement
\* C11, as claimed: when the with statement is left, close has been invoked
\* once for every successful registration of the connector, those of
\* retry-on-unregister included.
C11_CloseOncePerRegistration ==
    scope.phase = "left" => scope.deletes = scope.registrations

\* C11, amended: __exit__ invokes close once on every exit path (no
\* exception, an error of the body, the interrupt signal): it sends one
\* delete request, for the session stored at that time, and nothing else.
\* Sessions that a later registration replaced get no delete request.
C11_CloseOncePerExit ==
    scope.phase \in {"exit", "left"} =>
        /\ op = "exit"
        /\ scope.type_ \in {"None", "KeyboardInterrupt", "Exception", "TypeError",
                            "RuntimeError", "AttributeError", "TransportError"}
        /\ log[1].kind = "delete"
        /\ log[1].session_id = registered_session
        /\ registered_session = platform_session
        /\ registered_session = before.session_id
        /\ Len(log) = (IF scope.phase = "exit" THEN 1 ELSE 2)
        /\ scope.phase = "left" => log[2] \in {Deleted, Failure, Interrupt}

\* The body re-registered through retry-on-unregister and ended with an
\* error: the with statement is left after one delete, for the new session.
C11_Witness ==
    /\ scope.phase = "left"
    /\ scope.type_ = "TypeError"
    /\ scope.registrations = 2
    /\ scope.deletes = 1
    /\ retry
    /\ log = <<DeleteRequest(platform_session), Deleted>>

\* C12, as claimed: an interrupt raised during registration, advance or
\* close never reaches the caller.
C12_InterruptNeverPropagates ==
    /\ pc = "dead" => result.exc # "KeyboardInterrupt"
    /\ scope.phase = "left" => scope.propagated # "KeyboardInterrupt"

\* C12, amended: __exit__ closes the session first and then suppresses the
\* interrupt of the body (raised there by an advance or a registration) and
\* nothing else, so any other failure of the body is propagated after the
\* close.  What the close of __exit__ itself raises is propagated, the
\* interrupt included, and so is what the registration of __init__ raises,
\* which no close follows.
C12_ExitSuppressesBodyInterrupt ==
    /\ scope.phase = "left" =>
        /\ log[1].kind = "delete"
        /\ log[2] = Deleted =>
               scope.propagated =
                   (IF scope.type_ = "KeyboardInterrupt" THEN "None" ELSE scope.type_)
        /\ log[2] = Failure => scope.propagated = "TransportError"
        /\ log[2] = Interrupt => scope.propagated = "KeyboardInterrupt"
    /\ pc = "dead" =>
        /\ scope.phase = "none"
        /\ result.outcome = "raised"
        /\ Last(log) = Interrupt => result.exc = "KeyboardInterrupt"
        /\ \A i \in 1..Len(log) : log[i].kind # "delete"

\* The body ended with the interrupt signal: the session is closed and the
\* with statement lets nothing through.
C12_Witness ==
    /\ scope.phase = "left"
    /\ scope.type_ = "KeyboardInterrupt"
    /\ scope.propagated = "None"
    /\ log = <<DeleteRequest(platform_session), Deleted>>

\* ---------------------------------------------------------- validate_state
\* The nodes of a value, the value first and then those of its items in order.
RECURSIVE Flatten(_)
RECURSIVE FlattenAll(_, _)
FlattenAll(xs, i) == IF i > Len(xs) THEN <<>> ELSE Flatten(xs[i]) \o FlattenAll(xs, i + 1)
Flatten(x) == <<x>> \o FlattenAll(x.items, 1)

BuiltFrom(x, types) == \A i \in 1..Len(Flatten(x)) : Flatten(x)[i].type \in types

\* C13, as claimed: validate_state returns None for every value built only
\* from booleans, integers, floats, strings, lists and string-keyed dicts.
C13_AcceptsBuiltinsAndStrings ==
    (validation.called
        /\ BuiltFrom(state, {"bool", "int", "float", "str", "list", "dict"}))
        => validation.error = <<>>

\* C13, amended: validate_state returns None for every value built only
\* from booleans, integers, floats, lists and string-keyed dicts, nested to
\* any depth; a string anywhere in the value is refused.
C13_AcceptsBuiltins ==
    validation.called =>
        /\ BuiltFrom(state, {"bool", "int", "float", "list", "dict"})
               => validation.error = <<>>
        /\ (\E i \in 1..Len(Flatten(state)) : Flatten(state)[i].type = "str")
               => validation.error # <<>>

\* A dict that holds a list that holds a float was accepted.
C13_Witness ==
    /\ validation.called
    /\ validation.error = <<>>
    /\ state = PyDict(<<"a", "b">>, <<PyValue("int", 7), PyList(<<PyValue("float", 2)>>)>>)

\* C14: a value that holds, at any depth, as a list item or as a dict
\* value, a node whose exact type is not an allowed one is refused with the
\* TypeError raised for the first such node in the order validate_state
\* visits them (that node and its type are what the message names); a node
\* of a subclass of an allowed type is refused like any other.
C14_RejectsForeignTypes ==
    validation.called =>
        LET nodes == Flatten(state)
            foreign == { i \in 1..Len(nodes) :
                           nodes[i].type \notin {"bool", "dict", "float", "int", "list"} }
        IN  foreign # {} =>
                /\ validation.error # <<>>
                /\ validation.error[1] = nodes[CHOOSE i \in foreign : \A j \in foreign : i <= j]
                /\ validation.error[1].type \notin {"bool", "dict", "float", "int", "list"}

\* A numpy.float64, a subclass of float, two containers deep and after an
\* accepted item, was refused.
C14_Witness ==
    /\ validation.called
    /\ state = PyDict(<<"k">>, <<PyList(<<PyValue("int", 7), PyValue("numpy.float64", 2)>>)>>)
    /\ validation.error = <<PyValue("numpy.float64", 2)>>

\* ------------------------------------------------------------ construction
\* C15: when the create request of the constructor fails, the failure leaves
\* the constructor, with retry on or off: one create request was sent,
\* nothing was stored, and no request ever follows, because no connector
\* came into being.
C15_ConstructionFailureFatal ==
    /\ [](pc = "dead" =>
            /\ op = "init"
            /\ Len(log) = 3
            /\ log[1].kind = "check"
            /\ log[2].kind = "create"
            /\ log[3] \in {Failure, Interrupt}
            /\ result = RaisedBy(log[3])
            /\ registered_session = 0
            /\ sequence_id = 0)
    /\ []((op = "init" /\ Len(log) = 3 /\ log[3] \in {Failure, Interrupt})
            => pc = "dead")
    /\ [][pc # "dead"]_vars

\* The create request of a constructor with retry on failed.
C15_Witness ==
    /\ retry
    /\ pc = "dead"
    /\ log[3] = Failure
    /\ result = TransportError

C17_AcceptedSnapshotIsSent ==
    (op = "next_event" /\ validate_state(state) = <<>>) =>
        /\ Len(log) >= 1
        /\ log[1].kind = "advance"
        /\ log[1].state = state

\* C17, amended: for a dict the validator accepts, the advance request holds
\* the stored session and sequence number, the snapshot as given, and as
\* halted flag the snapshot's "halted" entry, or False without one; a
\* snapshot the validator accepts that is not a dict (a list, a scalar)
\* ends the call with AttributeError and no request.
C17_PayloadOfDictSnapshot ==
    (op = "next_event" /\ validate_state(state) = <<>>) =>
        IF state.type = "dict"
        THEN /\ Len(log) >= 1
             /\ log[1].kind = "advance"
             /\ log[1].session_id = before.session_id
             /\ log[1].sequence_id = before.sequence_id
             /\ \A i \in 1..Len(log) :
                    log[i].kind = "advance" =>
                        /\ log[i].state = state
                        /\ \A k \in 1..Len(state.keys) :
                               state.keys[k] = "halted" => log[i].halted = state.items[k]
                        /\ (\A k \in 1..Len(state.keys) : state.keys[k] # "halted")
                               => log[i].halted = PyFalse
        ELSE /\ log = <<>>
             /\ pc = "ready"
             /\ result.exc = "AttributeError"
             /\ registered_session = before.session_id
             /\ sequence_id = before.sequence_id

\* A snapshot with a nested value and halted set went out under the
\* sequence number the platform had dictated.
C17_Witness ==
    /\ op = "next_event"
    /\ state = PyDict(<<"x", "halted">>, <<PyList(<<PyValue("float", 2)>>), PyTrue>>)
    /\ log[1] = AdvanceRequest(before.session_id,
                               [sequence_id |-> MaxSeq, state |-> state, halted |-> PyTrue])
    /\ before.sequence_id = MaxSeq

\* ------------------------------------------------------------ cascades
Count(kind) == Cardinality({ i \in 1..Len(log) : log[i].kind = kind })
Unregisters == Cardinality({ i \in 1..Len(log) : Unregistered(log[i]) })

\* C18: with retry on, every Unregister answer within one call of next_event
\* is handled alike.  The requests alternate advance, create, advance, ...;
\* each create follows an Unregister answer and each later advance follows
\* the answer of a create, carrying that answer's session and sequence
\* number 1.  After k Unregister answers the call has sent k create
\* requests, and k + 1 advance requests once the last create is answered.
C18_CascadeAlternates ==
    (retry /\ op = "next_event") =>
        /\ \A i \in 1..Len(log) :
            /\ i % 4 = 1 => log[i].kind = "advance"
            /\ i % 4 = 2 => /\ log[i].kind \in {"event", "failure"}
                            /\ i < Len(log) => Unregistered(log[i])
            /\ i % 4 = 3 => log[i].kind = "create" /\ Unregistered(log[i - 1])
            /\ i % 4 = 0 => /\ log[i].kind \in {"created", "failure"}
                            /\ i < Len(log) => log[i].kind = "created"
            /\ (i > 1 /\ log[i].kind = "advance") =>
                   /\ log[i - 1].kind = "created"
                   /\ log[i].session_id = log[i - 1].session_id
                   /\ log[i].sequence_id = 1
        /\ Count("create") = Unregisters
        /\ Len(log) > 0 => Count("advance") = Count("created") + 1
        /\ (Len(log) > 0 /\ IsEvent(Last(log)) /\ ~Unregistered(Last(log)))
               => Count("advance") = Unregisters + 1

\* Two Unregister answers in a row, then an Idle answer: three advance
\* requests and two create requests.
C18_Witness ==
    /\ retry
    /\ Ended
    /\ Unregisters = 2
    /\ Count("create") = 2
    /\ Count("advance") = 3
    /\ IsEvent(Last(log))
    /\ Last(log).event.type = "Idle"
    /\ log[9].session_id = log[8].session_id
    /\ log[5].session_id # log[9].session_id

C20_SessionOfLatestCreate ==
    /\ registered_session = platform_session
    /\ \A i \in 1..Len(log) :
           log[i].kind \in {"advance", "delete"} =>
               LET created == { j \in 1..(i - 1) : log[j].kind = "created" }
               IN  IF created = {}
                   THEN log[i].session_id = before.session_id
                   ELSE log[i].session_id =
                            log[CHOOSE j \in created : \A k \in created : k <= j].session_id
    /\ (pc \in {"advance", "delete"}) =>
           /\ Last(log).kind \in {"advance", "delete"}
           /\ Last(log).session_id = platform_session
           /\ platform_session \in SessionIds
    /\ op = "close_session" =>
           /\ log[1].kind = "delete"
           /\ log[1].session_id = platform_session
           /\ Len(log) <= 2
           /\ pc = "ready" => (Len(log) = 2 /\ log[2].kind \in {"deleted", "failure", "interrupt"})
           /\ registered_session = before.session_id
           /\ sequence_id = before.sequence_id
    /\ (Len(log) > 0 /\ Last(log).kind = "created") =>
           /\ sequence_id = 1
           /\ registered_session = Last(log).session_id

\* close_session returned for a connector whose sequence number the
\* platform had moved on: one delete request, nothing changed.
C20_Witness ==
    /\ op = "close_session"
    /\ pc = "ready"
    /\ log = <<DeleteRequest(platform_session), Deleted>>
    /\ sequence_id = MaxSeq
    /\ before = [session_id |-> platform_session, sequence_id |-> MaxSeq]

====
